---- MODULE Spec2Model ----
(***************************************************************************)
(* The submission store of the crop-advisory server (server.ts): db.json,  *)
(* the five /api handlers that read and rewrite it, and the values they     *)
(* answer with.  A JavaScript object is a function from field names to     *)
(* values, so that the object spread of the POST handler and the optional   *)
(* fields of a request body are modelled as the code computes them.         *)
(***************************************************************************)
EXTENDS Integers, Sequences, FiniteSets, TLC

VARIABLES
    file,      \* db.json: [kind, data]
    clock,     \* the server's wall clock, what Date.now() returns
    op,        \* the kind of the step taken last
    req,       \* the request handled last
    resp,      \* the response sent last: [status, body]
    acked,     \* history: the submissions the responses have acknowledged
    pc,        \* per writer process: where it is inside its POST handler
    local,     \* per writer process: the handler's local variables
    ui,        \* the browser: the React state of App
    fetch,     \* the browser: the fetchSubmissions call and its retries
    task,      \* the browser: where handleAnalyze is in its awaits
    speech,    \* the browser: the speech requests, the refs and the audio
    voice,     \* the browser: the speech-recognition sessions and their state
    polls      \* the browser: the GET /api/submissions requests in flight

client == <<ui, fetch, task, speech, voice, polls>>

vars == <<file, clock, op, req, resp, acked, pc, local, ui, fetch, task, speech,
          voice, polls>>

----------------------------------------------------------------------------
(* Bounds of the model *)

MaxSubs == 2
MaxClock == 1
MaxSpeech == 3
MaxCounted == 3
MaxSessions == 2
MaxPolls == 2
MaxWrites == 2

----------------------------------------------------------------------------
(* JavaScript values *)

null == "null"
undefined == "undefined"

\* obj.f, which is undefined when obj has no field f
Get(obj, f) == IF f \in DOMAIN obj THEN obj[f] ELSE undefined

\* { ...obj, ...over }: the fields of over win
Spread(obj, over) ==
    [f \in (DOMAIN obj) \cup (DOMAIN over) |->
        IF f \in DOMAIN over THEN over[f] ELSE obj[f]]

\* !v for the values a choice takes
Falsy(v) == v \in {null, undefined}

Min(a, b) == IF a < b THEN a ELSE b

----------------------------------------------------------------------------
(* Identifiers: Math.random().toString(36).substr(2, 9) *)

\* Math.random().toString(36) as its characters: "0." and the base-36 digits
\* of the fraction.  The last two draws differ only after the 9th digit.
RandomDraws ==
    { <<"0", ".", "i">>,
      <<"0", ".", "k", "3", "j", "9", "x", "2", "m", "1", "a", "7", "q">>,
      <<"0", ".", "k", "3", "j", "9", "x", "2", "m", "1", "a", "c">> }

\* s.substr(start, length) with a 0-based start
Substr(s, start, length) ==
    SubSeq(s, start + 1, Min(Len(s), start + length))

GenerateId(rnd) == Substr(rnd, 2, 9)

Ids == { GenerateId(r) : r \in RandomDraws }

----------------------------------------------------------------------------
(* Requests *)

\* POST bodies.  The handler names crop and location only; every field is
\* copied by the spread.  The last body also carries id, timestamp and
\* choice, which a client is free to send.
PostBodies ==
    { [crop |-> "Mango", location |-> "Hyderabad", riskLevel |-> "high"],
      [crop |-> "Rice", location |-> "Guntur", riskLevel |-> "low"],
      [crop |-> "Mango", location |-> "Hyderabad", riskLevel |-> "severe"],
      [crop |-> "Mango", location |-> "Hyderabad", riskLevel |-> "high",
       id |-> <<"i">>, timestamp |-> 0, choice |-> "A"] }

\* PATCH bodies: the choice is whatever JSON value the client sent
PatchBodies ==
    { [choice |-> "A"], [choice |-> "B"], [choice |-> null], [choice |-> "C"] }

----------------------------------------------------------------------------
(* db.json *)

EmptyDb == [submissions |-> <<>>]

NoData == <<>>

\* fs.writeFileSync(DB_FILE, JSON.stringify(data, null, 2))
WriteDb(data) == [kind |-> "json", data |-> data]

\* fs.existsSync(DB_FILE)
ExistsDb(f) == f.kind # "absent"

\* JSON.parse(fs.readFileSync(DB_FILE, "utf-8")) throws on a missing file
\* and on text that is not JSON
ReadThrows(f) == f.kind # "json"

ReadDb(f) == f.data

\* data.submissions || []
SubmissionsOrEmpty(data) ==
    IF "submissions" \in DOMAIN data THEN data.submissions ELSE <<>>

Response(status, body) == [status |-> status, body |-> body]

\* no response: an exception left a handler uncaught and ended the process
Uncaught == Response(-1, <<>>)

ErrorBody(msg) == [error |-> msg]

----------------------------------------------------------------------------
(* GET /api/submissions *)

\* a read that throws answered as an empty store
ListSubmissionsLenient(f) ==
    IF ReadThrows(f)
    THEN [file |-> f, resp |-> Response(200, <<>>)]
    ELSE [file |-> f,
          resp |-> Response(200, SubmissionsOrEmpty(ReadDb(f)))]

\* a missing file created by the read
ListSubmissionsMaterialize(f) ==
    IF ~ExistsDb(f)
    THEN [file |-> WriteDb(EmptyDb), resp |-> Response(200, <<>>)]
    ELSE IF ReadThrows(f)
    THEN [file |-> f,
          resp |-> Response(500, ErrorBody("Failed to read database"))]
    ELSE [file |-> f,
          resp |-> Response(200, SubmissionsOrEmpty(ReadDb(f)))]

ListSubmissions(f) ==
    IF ~ExistsDb(f)
    THEN [file |-> f, resp |-> Response(200, <<>>)]
    ELSE IF ReadThrows(f)
    THEN [file |-> f,
          resp |-> Response(500, ErrorBody("Failed to read database"))]
    ELSE [file |-> f,
          resp |-> Response(200, SubmissionsOrEmpty(ReadDb(f)))]

----------------------------------------------------------------------------
(* POST /api/submissions *)

\* the spread written last, so that the fields of the body win
NewSubmissionBodyLast(body, rnd, now) ==
    Spread([id |-> GenerateId(rnd), timestamp |-> now, choice |-> null], body)

\* without choice: null
NewSubmissionKeepChoice(body, rnd, now) ==
    Spread(body, [id |-> GenerateId(rnd), timestamp |-> now])

\* { ...req.body, id: <random>, timestamp: Date.now(), choice: null }
NewSubmission(body, rnd, now) ==
    Spread(body, [id |-> GenerateId(rnd), timestamp |-> now, choice |-> null])

\* if (!data.submissions) data.submissions = []
EnsureSubmissions(data) ==
    IF "submissions" \in DOMAIN data
    THEN data
    ELSE Spread(data, [submissions |-> <<>>])

\* unshift in place of push
PushSubmissionFront(data, s) ==
    [data EXCEPT !.submissions = <<s>> \o @]

\* data.submissions.push(newSubmission)
PushSubmission(data, s) ==
    [data EXCEPT !.submissions = Append(@, s)]

\* a handler that never reads what is stored
PostReadNothing(f) == EmptyDb

\* the document the handler starts from
PostRead(f) == IF ExistsDb(f) THEN ReadDb(f) ELSE EmptyDb

\* the document replaced by one holding the new submission alone
PostWriteOnlyNew(data, new) == WriteDb([submissions |-> <<new>>])

\* the document the handler writes back
PostWrite(data, new) == WriteDb(PushSubmission(EnsureSubmissions(data), new))

PostSubmission(f, body, rnd, now) ==
    IF ExistsDb(f) /\ ReadThrows(f)
    THEN [file |-> f,
          resp |-> Response(500, ErrorBody("Failed to save submission"))]
    ELSE LET new == NewSubmission(body, rnd, now)
         IN  [file |-> PostWrite(PostRead(f), new),
              resp |-> Response(201, new)]

----------------------------------------------------------------------------
(* PATCH /api/submissions/:id/choice *)

\* data.submissions.find(s => s.id === id), as the index found, 0 for none
FindIndex(subs, id) ==
    LET hits == { k \in DOMAIN subs : subs[k].id = id }
    IN  IF hits = {} THEN 0
        ELSE CHOOSE k \in hits : \A j \in hits : k <= j

\* the element replaced by a new object in place of one field assigned
SetChoiceReplace(data, k, choice) ==
    [data EXCEPT !.submissions[k] = [id |-> @.id, choice |-> choice]]

\* sub.choice = choice, on the element of the array that find returned
SetChoice(data, k, choice) ==
    [data EXCEPT !.submissions[k] = Spread(@, [choice |-> choice])]

\* the handler without its try/catch
PatchChoiceNoCatch(f, id, body) ==
    IF ReadThrows(f) \/ "submissions" \notin DOMAIN ReadDb(f)
    THEN [file |-> f, resp |-> Uncaught]
    ELSE LET data == ReadDb(f)
             k == FindIndex(data.submissions, id)
             out == SetChoice(data, k, Get(body, "choice"))
         IN  IF k # 0
             THEN [file |-> WriteDb(out),
                   resp |-> Response(200, out.submissions[k])]
             ELSE [file |-> f,
                   resp |-> Response(404, ErrorBody("Submission not found"))]

PatchChoice(f, id, body) ==
    IF ReadThrows(f) \/ "submissions" \notin DOMAIN ReadDb(f)
    THEN [file |-> f,
          resp |-> Response(500, ErrorBody("Failed to update choice"))]
    ELSE LET data == ReadDb(f)
             k == FindIndex(data.submissions, id)
             out == SetChoice(data, k, Get(body, "choice"))
         IN  IF k # 0
             THEN [file |-> WriteDb(out),
                   resp |-> Response(200, out.submissions[k])]
             ELSE [file |-> f,
                   resp |-> Response(404, ErrorBody("Submission not found"))]

----------------------------------------------------------------------------
(* DELETE /api/submissions *)

\* a clear that writes only over an existing file
ClearSubmissionsIfExists(f) ==
    [file |-> IF ExistsDb(f) THEN WriteDb(EmptyDb) ELSE f,
     resp |-> Response(200, [message |-> "History cleared"])]

\* a clear that writes {}
ClearSubmissionsNoField(f) ==
    [file |-> WriteDb(NoData),
     resp |-> Response(200, [message |-> "History cleared"])]

ClearSubmissions(f) ==
    [file |-> WriteDb(EmptyDb),
     resp |-> Response(200, [message |-> "History cleared"])]

----------------------------------------------------------------------------
(* GET /api/admin/stats *)

\* subs.filter(s => s[field] === v).length
CountEq(subs, field, v) ==
    Cardinality({ k \in DOMAIN subs : Get(subs[k], field) = v })

\* subs.filter(s => !s.choice).length
CountNoChoice(subs) ==
    Cardinality({ k \in DOMAIN subs : Falsy(Get(subs[k], "choice")) })

\* acc[s.crop]: the property key of a value (undefined gives "undefined")
PropertyKey(v) == v

\* keys an assignment on {} does not create: acc["__proto__"] reads
\* Object.prototype, and assigning a string to it is ignored
IgnoredKeys == {"__proto__"}

\* subs.reduce((acc, s) => { acc[s.crop] = (acc[s.crop] || 0) + 1 }, {})
ByCrop(subs) ==
    [c \in { PropertyKey(Get(subs[k], "crop")) : k \in DOMAIN subs }
            \ IgnoredKeys |->
        Cardinality({ k \in DOMAIN subs :
                        PropertyKey(Get(subs[k], "crop")) = c })]

Stats(subs) ==
    [total |-> Len(subs),
     byRisk |->
        [high |-> CountEq(subs, "riskLevel", "high"),
         medium |-> CountEq(subs, "riskLevel", "medium"),
         low |-> CountEq(subs, "riskLevel", "low")],
     byChoice |->
        [change |-> CountEq(subs, "choice", "A"),
         continue |-> CountEq(subs, "choice", "B"),
         none |-> CountNoChoice(subs)],
     byCrop |-> ByCrop(subs)]

\* what the handler answers when db.json does not exist
StatsOfMissingFile ==
    [total |-> 0, byRisk |-> <<>>, byChoice |-> <<>>, byCrop |-> <<>>]

\* a read that throws answered as an empty store
AdminStatsLenient(f) ==
    IF ReadThrows(f)
    THEN [file |-> f, resp |-> Response(200, Stats(<<>>))]
    ELSE [file |-> f,
          resp |-> Response(200, Stats(SubmissionsOrEmpty(ReadDb(f))))]

AdminStats(f) ==
    IF ~ExistsDb(f)
    THEN [file |-> f, resp |-> Response(200, StatsOfMissingFile)]
    ELSE IF ReadThrows(f)
    THEN [file |-> f, resp |-> Response(500, ErrorBody("Failed to get stats"))]
    ELSE [file |-> f,
          resp |-> Response(200, Stats(SubmissionsOrEmpty(ReadDb(f))))]

----------------------------------------------------------------------------
(* What the responses have acknowledged *)

\* the acknowledged list after PATCH .../<id>/choice was answered 200: the
\* submission the request named takes the choice the request carried
AckChoice(list, id, choice) ==
    LET hits == { k \in DOMAIN list : list[k].id = id }
    IN  IF hits = {} THEN list
        ELSE LET k == CHOOSE k \in hits : \A j \in hits : k <= j
             IN  [list EXCEPT ![k] = Spread(@, [choice |-> choice])]

AckAfter(kind, request, r, list) ==
    IF kind = "POST" /\ r.status = 201 THEN Append(list, r.body)
    ELSE IF kind = "PATCH" /\ r.status = 200
    THEN AckChoice(list, request.id, Get(request.body, "choice"))
    ELSE IF kind = "DELETE" /\ r.status = 200 THEN <<>>
    ELSE list

----------------------------------------------------------------------------
(* The server process: one request is handled to its response before the   *)
(* next one starts, every handler being synchronous code around             *)
(* readFileSync and writeFileSync.                                          *)

Procs == {1, 2}

NoLocal == <<>>

\* analysis === null; a result is a record of another shape
NoAnalysis == [null |-> TRUE]

\* currentSubmissionId === null; an id is a sequence of characters
NoId == <<>>

\* useState initial values
InitUi ==
    [submissions |-> <<>>, analysis |-> NoAnalysis, analysisError |-> null,
     loading |-> FALSE, saving |-> FALSE, currentSubmissionId |-> NoId,
     userChoice |-> null]

\* no fetchSubmissions call made yet
InitFetch ==
    [awaiting |-> FALSE, timer |-> 0, retries |-> 0, attempts |-> 0,
     delays |-> <<>>, outcome |-> "none"]

\* handleAnalyze not running
InitTask == [at |-> "idle", result |-> <<>>, seen |-> FALSE, choice |-> null]

\* refs as created by useRef; no request made, nothing playing
InitSpeech ==
    [speaking |-> FALSE, isSpeakingRef |-> FALSE,
     audioSourceRef |-> 0, audioContextRef |-> 0,
     gens |-> {}, playing |-> {}, seen |-> FALSE, stopped |-> {}]

\* no recognition session yet (lines 98-101); 0 stands for a null instance
InitVoice ==
    [listening |-> FALSE, recognitionInstance |-> 0, voiceTarget |-> "form",
     sessions |-> <<>>, followUpQuestion |-> 0]

\* no GET /api/submissions sent yet; ver counts the changes of the store,
\* shown is the ver of the response that setSubmissions applied last
InitPolls ==
    [ver |-> 0, shown |-> 0, flight |-> [p \in 1..MaxPolls |-> NoLocal]]

\* server start and page load, db.json apart
InitButFile ==
    /\ clock = 0
    /\ op = "start"
    /\ req = <<>>
    /\ resp = Response(0, <<>>)
    /\ acked = <<>>
    /\ pc = [p \in Procs |-> "idle"]
    /\ local = [p \in Procs |-> NoLocal]
    /\ ui = InitUi
    /\ fetch = InitFetch
    /\ task = InitTask
    /\ speech = InitSpeech
    /\ voice = InitVoice
    /\ polls = InitPolls

\* server start: db.json is created when it does not exist
Init ==
    /\ file = WriteDb(EmptyDb)
    /\ InitButFile

\* the submissions a reader of db.json gets
Stored == IF ReadThrows(file) THEN <<>> ELSE SubmissionsOrEmpty(ReadDb(file))

Served(kind, request, result) ==
    /\ resp # Uncaught
    /\ file' = result.file
    /\ resp' = result.resp
    /\ req' = request
    /\ acked' = AckAfter(kind, request, result.resp, acked)
    /\ UNCHANGED <<clock, pc, local>>

\* a request that is not the modelled browser's
Handled(kind, request, result) ==
    /\ Served(kind, request, result)
    /\ UNCHANGED client

HandleList ==
    /\ op' = "GET"
    /\ Handled("GET", <<>>, ListSubmissions(file))

HandlePost ==
    /\ Len(Stored) < MaxSubs
    /\ op' = "POST"
    /\ \E body \in PostBodies, rnd \in RandomDraws :
          Handled("POST", [body |-> body, rnd |-> rnd],
                  PostSubmission(file, body, rnd, clock))

HandlePatch ==
    /\ op' = "PATCH"
    /\ \E id \in Ids, body \in PatchBodies :
          Handled("PATCH", [id |-> id, body |-> body],
                  PatchChoice(file, id, body))

HandleDelete ==
    /\ op' = "DELETE"
    /\ Handled("DELETE", <<>>, ClearSubmissions(file))

HandleStats ==
    /\ op' = "STATS"
    /\ Handled("STATS", <<>>, AdminStats(file))

\* time passes
Tick ==
    /\ clock < MaxClock
    /\ clock' = clock + 1
    /\ op' = "tick"
    /\ req' = <<>>
    /\ resp' = Response(0, <<>>)
    /\ UNCHANGED <<file, acked, pc, local, voice, polls, ui, fetch, task, speech>>

Next ==
    \/ HandleList
    \/ HandlePost
    \/ HandlePatch
    \/ HandleDelete
    \/ HandleStats
    \/ Tick

Spec == Init /\ [][Next]_vars

----------------------------------------------------------------------------
(* The same server with db.json also changed from outside the process: the  *)
(* handlers test fs.existsSync and !data.submissions and catch what          *)
(* readFileSync and JSON.parse throw, which are the cases below.             *)

External(f) ==
    /\ file' = f
    /\ op' = "env"
    /\ req' = <<>>
    /\ resp' = Response(0, <<>>)
    /\ acked' = <<>>
    /\ UNCHANGED <<clock, pc, local, voice, polls, ui, fetch, task, speech>>

EnvRemoveFile ==
    /\ file.kind # "absent"
    /\ External([kind |-> "absent", data |-> NoData])

EnvCorruptFile ==
    /\ file.kind # "corrupt"
    /\ External([kind |-> "corrupt", data |-> NoData])

\* db.json rewritten as a JSON object without a submissions field
EnvDropField ==
    /\ file # WriteDb(NoData)
    /\ External(WriteDb(NoData))

NextEnv ==
    \/ HandleList
    \/ HandlePost
    \/ HandlePatch
    \/ HandleDelete
    \/ HandleStats
    \/ Tick
    \/ EnvRemoveFile
    \/ EnvCorruptFile
    \/ EnvDropField

SpecEnv == Init /\ [][NextEnv]_vars

----------------------------------------------------------------------------
(* The same again with fs.writeFileSync able to throw (disk full, file not   *)
(* writable): the handler's catch block answers.  A write that throws        *)
(* leaves db.json as it was or with text that no longer parses.              *)
(* Time plays no part in how a failure is answered: the clock stands still.  *)

WriteFailureLeaves(f) == { f, [kind |-> "corrupt", data |-> NoData] }

\* line 69 throws, lines 72-75 answer
PostWriteFails ==
    /\ Len(Stored) < MaxSubs
    /\ ~(ExistsDb(file) /\ ReadThrows(file))
    /\ op' = "POST"
    /\ \E left \in WriteFailureLeaves(file) :
          Handled("POST", [fault |-> "write"],
                  [file |-> left,
                   resp |-> Response(500,
                                ErrorBody("Failed to save submission"))])

\* line 86 throws, lines 91-93 answer
PatchWriteFails ==
    /\ op' = "PATCH"
    /\ \E id \in Ids, body \in PatchBodies,
          left \in WriteFailureLeaves(file) :
          /\ PatchChoice(file, id, body).resp.status = 200
          /\ Handled("PATCH", [id |-> id, fault |-> "write"],
                     [file |-> left,
                      resp |-> Response(500,
                                   ErrorBody("Failed to update choice"))])

\* line 98 throws, lines 101-103 answer
DeleteWriteFails ==
    /\ op' = "DELETE"
    /\ \E left \in WriteFailureLeaves(file) :
          Handled("DELETE", [fault |-> "write"],
                  [file |-> left,
                   resp |-> Response(500,
                                ErrorBody("Failed to clear history"))])

NextIO ==
    \/ HandleList
    \/ HandlePost
    \/ HandlePatch
    \/ HandleDelete
    \/ HandleStats
    \/ EnvRemoveFile
    \/ EnvCorruptFile
    \/ EnvDropField
    \/ PostWriteFails
    \/ PatchWriteFails
    \/ DeleteWriteFails

SpecIO == Init /\ [][NextIO]_vars

----------------------------------------------------------------------------
(* The stats of a store, for stores of up to MaxCounted submissions as POST  *)
(* writes them from bodies with a crop, without one, and with the crop       *)
(* "__proto__".                                                              *)

CountedBodies ==
    { [crop |-> "Mango", riskLevel |-> "high"],
      [crop |-> "Rice", riskLevel |-> "low"],
      [crop |-> "__proto__", riskLevel |-> "low"],
      [riskLevel |-> "low"] }

CountedSubmissions ==
    { NewSubmission(body, <<"0", ".", "i">>, 0) : body \in CountedBodies }

InitCounted ==
    /\ InitButFile
    /\ \E n \in 0..MaxCounted :
          \E subs \in [1..n -> CountedSubmissions] :
              file = WriteDb([submissions |-> subs])

NextCounted ==
    \/ HandleStats
    \/ HandleList

SpecCounted == InitCounted /\ [][NextCounted]_vars

----------------------------------------------------------------------------
(* The browser (src/src/App.tsx).  fetchSubmissions: one GET of the list,   *)
(* and on failure a timer that calls it again with one retry less.  One     *)
(* call and its retries are followed at a time.                             *)

DefaultRetries == 5

\* response.ok
Ok(status) == status >= 200 /\ status < 300

RetryAllowedInclusive(retries) == retries >= 0

RetryAllowed(retries) == retries > 0

RetryDelay(retries) == (6 - retries) * 2000

\* the catch block of fetchSubmissions(retries)
FetchFailed(f) ==
    IF RetryAllowed(f.retries)
    THEN [f EXCEPT !.awaiting = FALSE,
                   !.timer = RetryDelay(f.retries),
                   !.delays = Append(f.delays, RetryDelay(f.retries))]
    ELSE [f EXCEPT !.awaiting = FALSE, !.outcome = "gaveup"]

\* fetchSubmissions(retries): the request goes out
FetchSent(retries, attempts, delays) ==
    [awaiting |-> TRUE, timer |-> 0, retries |-> retries,
     attempts |-> attempts, delays |-> delays, outcome |-> "none"]

FetchIdle == ~fetch.awaiting /\ fetch.timer = 0

\* fetchSubmissions() from the mount effect, the poll or a refresh button
FetchSubmissionsCall ==
    /\ FetchIdle
    /\ task.at = "idle"
    /\ fetch' = FetchSent(DefaultRetries, 1, <<>>)
    /\ UNCHANGED <<file, clock, op, req, resp, acked, pc, local, voice, polls,
                   ui, task, speech>>

\* the server answers the GET: lines 243-246, or the throw of line 243
FetchResponds ==
    /\ fetch.awaiting
    /\ op' = "GET"
    /\ LET result == ListSubmissions(file)
       IN  /\ Served("GET", <<>>, result)
           /\ IF Ok(result.resp.status)
              THEN /\ ui' = [ui EXCEPT !.submissions = result.resp.body]
                   /\ fetch' = [fetch EXCEPT !.awaiting = FALSE,
                                             !.outcome = "ok"]
              ELSE /\ ui' = ui
                   /\ fetch' = FetchFailed(fetch)
    /\ UNCHANGED <<task, speech, voice, polls>>

\* fetch rejects: the server is not reached
FetchNetworkError ==
    /\ fetch.awaiting
    /\ op' = "neterr"
    /\ fetch' = FetchFailed(fetch)
    /\ UNCHANGED <<file, clock, req, resp, acked, pc, local, voice, polls,
                   ui, task, speech>>

\* setTimeout(() => fetchSubmissions(retries - 1), delay) fires
FetchTimerFires ==
    /\ fetch.timer # 0
    /\ fetch' = FetchSent(fetch.retries - 1, fetch.attempts + 1, fetch.delays)
    /\ UNCHANGED <<file, clock, op, req, resp, acked, pc, local, voice, polls,
                   ui, task, speech>>

----------------------------------------------------------------------------
(* Speech.  A request is numbered when handleSpeak makes it; the number      *)
(* names its generateSpeech call, then its AudioContext and its source.  In  *)
(* speech: speaking is the React state, seen the value of speaking in the    *)
(* closure of a handler that is between two awaits, gens the requests whose  *)
(* audio is being generated, playing the sources started and neither         *)
(* stopped nor ended, stopped (history) the requests that were generating   *)
(* when stopSpeaking was called.  0 stands for a null ref.                   *)

SpeechIds == 1..MaxSpeech

FreeSpeechIds(sp) == SpeechIds \ (sp.gens \cup sp.playing)

\* stopSpeaking (lines 483-505)
StopSpeaking(sp) ==
    [sp EXCEPT !.isSpeakingRef = FALSE,
               !.playing = @ \ {sp.audioSourceRef, sp.audioContextRef},
               !.audioSourceRef = 0,
               !.audioContextRef = 0,
               !.speaking = FALSE,
               !.stopped = @ \cup sp.gens]

\* the number the next request gets
NextSpeechId(sp) ==
    CHOOSE g \in FreeSpeechIds(sp) : \A h \in FreeSpeechIds(sp) : g <= h

\* handleSpeak can be followed: it stops, or a number is free for its request
CanSpeak(sp, seen) == seen \/ FreeSpeechIds(sp) # {}

\* handleSpeak up to its await (lines 507-535); seen is the speaking it reads
HandleSpeakBegin(sp, seen) ==
    IF seen
    THEN StopSpeaking(sp)
    ELSE [sp EXCEPT !.speaking = TRUE,
                    !.isSpeakingRef = TRUE,
                    !.gens = @ \cup {NextSpeechId(sp)},
                    !.stopped = @ \ {NextSpeechId(sp)}]

\* handleSpeak after generateSpeech resolved with audio (lines 538-571)
HandleSpeakPlay(sp, g) ==
    IF ~sp.isSpeakingRef
    THEN [sp EXCEPT !.gens = @ \ {g}]
    ELSE [sp EXCEPT !.gens = @ \ {g},
                    !.audioContextRef = g,
                    !.audioSourceRef = g,
                    !.playing = @ \cup {g}]

\* handleSpeak after generateSpeech resolved with undefined (lines 538, 572-575)
HandleSpeakNoAudio(sp, g) ==
    IF ~sp.isSpeakingRef
    THEN [sp EXCEPT !.gens = @ \ {g}]
    ELSE [sp EXCEPT !.gens = @ \ {g},
                    !.speaking = FALSE,
                    !.isSpeakingRef = FALSE]

\* source.onended (lines 562-570)
OnEnded(sp, s) ==
    IF sp.audioSourceRef = s
    THEN [sp EXCEPT !.playing = @ \ {s},
                    !.speaking = FALSE,
                    !.isSpeakingRef = FALSE,
                    !.audioSourceRef = 0,
                    !.audioContextRef = 0]
    ELSE [sp EXCEPT !.playing = @ \ {s}]

OnlySpeech == UNCHANGED <<file, clock, op, req, resp, acked, pc, local, voice, polls,
                          ui, fetch, task>>

\* a click on a speaker button: the handler of the latest render
HandleSpeakClick ==
    /\ CanSpeak(speech, speech.speaking)
    /\ speech' = HandleSpeakBegin(speech, speech.speaking)
    /\ OnlySpeech

\* an async handler (voice input, follow-up question) starts and awaits
AsyncHandlerBegins ==
    /\ speech.seen # speech.speaking
    /\ speech' = [speech EXCEPT !.seen = speech.speaking]
    /\ OnlySpeech

\* the handler resumes and calls handleSpeak(text) (lines 415, 474)
HandleSpeakResumed ==
    /\ CanSpeak(speech, speech.seen)
    /\ speech' = HandleSpeakBegin(speech, speech.seen)
    /\ OnlySpeech

SpeechGenerated ==
    /\ \E g \in speech.gens : speech' = HandleSpeakPlay(speech, g)
    /\ OnlySpeech

SpeechNotGenerated ==
    /\ \E g \in speech.gens : speech' = HandleSpeakNoAudio(speech, g)
    /\ OnlySpeech

PlaybackEnded ==
    /\ \E s \in speech.playing : speech' = OnEnded(speech, s)
    /\ OnlySpeech

NextSpeech ==
    \/ HandleSpeakClick
    \/ AsyncHandlerBegins
    \/ HandleSpeakResumed
    \/ SpeechGenerated
    \/ SpeechNotGenerated
    \/ PlaybackEnded

SpecSpeech == Init /\ [][NextSpeech]_vars

----------------------------------------------------------------------------
(* handleAnalyze (lines 602-661) and analyzeCropMismatch (geminiService.ts). *)
(* Of an AnalysisResult the model keeps riskLevel, climaticConditions and    *)
(* advisory, the fields handleAnalyze reads.                                 *)

RequiredFields == {"riskLevel", "climaticConditions", "advisory"}

CompleteResult ==
    [riskLevel |-> "high", climaticConditions |-> "dry spell",
     advisory |-> [whatMayHappen |-> "poor fruit set"]]

\* what the model API call gives: an error, or a response and its text
GatewayReplies ==
    { [kind |-> "rejects"],
      [kind |-> "none"],
      [kind |-> "garbage"],
      [kind |-> "json", value |-> CompleteResult],
      [kind |-> "json", value |-> [riskLevel |-> "high"]] }

Threw == [threw |-> TRUE, value |-> <<>>]

\* JSON.parse
JsonParse(text) ==
    IF text.kind = "json" THEN [threw |-> FALSE, value |-> text.value]
    ELSE Threw

\* JSON.parse(response.text || "{}")
AnalyzeCropMismatch(reply) ==
    IF reply.kind = "rejects" THEN Threw
    ELSE IF reply.kind = "none" THEN JsonParse([kind |-> "json", value |-> <<>>])
    ELSE JsonParse(reply)

\* JSON.stringify(newSubmission): a field whose value is undefined is left out
JsonBody(crop, location, result) ==
    LET copied == {"riskLevel", "climaticConditions"} \cap DOMAIN result
    IN  [f \in {"crop", "location", "fullAnalysis"} \cup copied |->
            CASE f = "crop" -> crop
              [] f = "location" -> location
              [] f = "fullAnalysis" -> result
              [] OTHER -> result[f]]

AnalysisFailedMessage == "Analysis failed. Please check your inputs and try again."

\* catch and finally (lines 655-660)
AnalyzeFailed(u) ==
    [u EXCEPT !.analysisError = AnalysisFailedMessage, !.loading = FALSE]

SpeechIdle == speech.gens = {} /\ speech.playing = {}

\* the form is submitted with crop, location and date filled in; the submit
\* button is disabled while loading or saving.  One analysis is followed at
\* a time, begun when no retry is pending and nothing is being spoken.
AnalyzeStart ==
    /\ task.at = "idle"
    /\ ~ui.loading /\ ~ui.saving
    /\ FetchIdle
    /\ SpeechIdle
    /\ ui' = [ui EXCEPT !.loading = TRUE,
                        !.analysisError = null,
                        !.analysis = NoAnalysis]
    /\ task' = [InitTask EXCEPT !.at = "gateway", !.seen = speech.speaking]
    /\ UNCHANGED <<file, clock, op, req, resp, acked, pc, local, voice, polls,
                   fetch, speech>>

\* analyzeCropMismatch settles; lines 613-633 send the POST
AnalysisArrives ==
    /\ task.at = "gateway"
    /\ \E reply \in GatewayReplies :
          LET out == AnalyzeCropMismatch(reply)
          IN  IF out.threw
              THEN /\ ui' = AnalyzeFailed(ui)
                   /\ task' = InitTask
              ELSE /\ ui' = [ui EXCEPT !.analysis = out.value,
                                       !.saving = TRUE]
                   /\ task' = [task EXCEPT !.at = "post",
                                           !.result = out.value]
    /\ UNCHANGED <<file, clock, op, req, resp, acked, pc, local, voice, polls,
                   fetch, speech>>

\* lines 644-660, from setSaving(false) on, for the React state u
AnalyzeFinish(u) ==
    /\ task' = InitTask
    /\ IF Get(task.result, "riskLevel") # "high"
       THEN /\ ui' = [u EXCEPT !.saving = FALSE, !.loading = FALSE]
            /\ speech' = speech
       ELSE IF "advisory" \notin DOMAIN task.result
       THEN /\ ui' = AnalyzeFailed([u EXCEPT !.saving = FALSE])
            /\ speech' = speech
       ELSE /\ ui' = [u EXCEPT !.saving = FALSE, !.loading = FALSE]
            /\ CanSpeak(speech, task.seen)
            /\ speech' = HandleSpeakBegin(speech, task.seen)

\* the server answers the POST (lines 635-643)
AnalyzePostResponds ==
    /\ task.at = "post"
    /\ Len(Stored) < MaxSubs
    /\ op' = "POST"
    /\ UNCHANGED <<voice, polls>>
    /\ \E rnd \in RandomDraws :
          LET body == JsonBody("Mango", "Hyderabad", task.result)
              result == PostSubmission(file, body, rnd, clock)
          IN  /\ Served("POST", [body |-> body, rnd |-> rnd], result)
              /\ IF Ok(result.resp.status)
                 THEN /\ ui' = [ui EXCEPT
                                  !.currentSubmissionId = result.resp.body.id,
                                  !.userChoice = null]
                      /\ fetch' = FetchSent(DefaultRetries, 1, <<>>)
                      /\ task' = [task EXCEPT !.at = "refresh"]
                      /\ speech' = speech
                 ELSE /\ AnalyzeFinish(ui)
                      /\ fetch' = fetch

\* the POST's fetch rejects: straight to the catch of line 655
AnalyzePostNetworkError ==
    /\ task.at = "post"
    /\ op' = "neterr"
    /\ ui' = AnalyzeFailed(ui)
    /\ task' = InitTask
    /\ UNCHANGED <<file, clock, req, resp, acked, pc, local, voice, polls, fetch, speech>>

\* await fetchSubmissions() returns: its first attempt is over
AnalyzeRefreshed ==
    /\ task.at = "refresh"
    /\ ~fetch.awaiting
    /\ AnalyzeFinish(ui)
    /\ UNCHANGED <<file, clock, op, req, resp, acked, pc, local, voice, polls, fetch>>

\* the analysis, the requests it makes and what they set going
NextAnalyze ==
    \/ FetchResponds
    \/ FetchNetworkError
    \/ FetchTimerFires
    \/ AnalyzeStart
    \/ AnalysisArrives
    \/ AnalyzePostResponds
    \/ AnalyzePostNetworkError
    \/ AnalyzeRefreshed
    \/ SpeechGenerated
    \/ SpeechNotGenerated
    \/ PlaybackEnded
    \/ EnvCorruptFile
    \/ HandleDelete

SpecAnalyze == Init /\ [][NextAnalyze]_vars

----------------------------------------------------------------------------
(* The choice between option A and option B (handleChoice, lines 450-463),  *)
(* the replay of a submission from the history (loadSubmission, lines       *)
(* 583-600) and the Clear All button (lines 1520-1526).  One handler is     *)
(* followed at a time, and here every GET of the list is answered.          *)

\* the option cards are rendered from analysis.advisory
OptionsShown == ui.analysis # NoAnalysis /\ "advisory" \in DOMAIN ui.analysis

\* a click on option A or B: lines 451-457 send the PATCH
ChoiceClick ==
    /\ task.at = "idle"
    /\ FetchIdle
    /\ OptionsShown
    /\ ui.currentSubmissionId # NoId
    /\ \E choice \in {"A", "B"} :
          task' = [InitTask EXCEPT !.at = "patch", !.choice = choice]
    /\ UNCHANGED <<file, clock, op, req, resp, acked, pc, local, voice, polls,
                   ui, fetch, speech>>

\* the server answers the PATCH: lines 458-459, whatever the status
ChoiceResponds ==
    /\ task.at = "patch"
    /\ op' = "PATCH"
    /\ LET body == [choice |-> task.choice]
           result == PatchChoice(file, ui.currentSubmissionId, body)
       IN  Served("PATCH", [id |-> ui.currentSubmissionId, body |-> body],
                  result)
    /\ ui' = [ui EXCEPT !.userChoice = task.choice]
    /\ fetch' = FetchSent(DefaultRetries, 1, <<>>)
    /\ task' = InitTask
    /\ UNCHANGED <<speech, voice, polls>>

\* the PATCH's fetch rejects: the catch of line 460 logs
ChoiceNetworkError ==
    /\ task.at = "patch"
    /\ op' = "neterr"
    /\ task' = InitTask
    /\ UNCHANGED <<file, clock, req, resp, acked, pc, local, voice, polls,
                   ui, fetch, speech>>

\* loadSubmission(sub) for an entry of the history list
LoadSubmission ==
    /\ task.at = "idle"
    /\ \E k \in DOMAIN ui.submissions :
          LET sub == ui.submissions[k]
              full == "fullAnalysis" \in DOMAIN sub
              speaks == /\ Get(sub, "riskLevel") = "high"
                        /\ full
                        /\ "advisory" \in DOMAIN sub.fullAnalysis
          IN  /\ ui' = [ui EXCEPT !.analysis =
                            IF full THEN sub.fullAnalysis ELSE NoAnalysis]
              /\ IF speaks
                 THEN /\ CanSpeak(speech, speech.speaking)
                      /\ speech' = HandleSpeakBegin(speech, speech.speaking)
                 ELSE speech' = speech
    /\ UNCHANGED <<file, clock, op, req, resp, acked, pc, local, voice, polls,
                   fetch, task>>

\* Clear All, confirmed: the DELETE, then fetchSubmissions()
ClearAll ==
    /\ task.at = "idle"
    /\ FetchIdle
    /\ op' = "DELETE"
    /\ Served("DELETE", <<>>, ClearSubmissions(file))
    /\ fetch' = FetchSent(DefaultRetries, 1, <<>>)
    /\ UNCHANGED <<ui, task, speech, voice, polls>>

NextChoice ==
    \/ AnalyzeStart
    \/ AnalysisArrives
    \/ AnalyzePostResponds
    \/ AnalyzePostNetworkError
    \/ AnalyzeRefreshed
    \/ FetchResponds
    \/ ChoiceClick
    \/ ChoiceResponds
    \/ ChoiceNetworkError
    \/ LoadSubmission
    \/ ClearAll
    \/ SpeechGenerated
    \/ SpeechNotGenerated
    \/ PlaybackEnded

SpecChoice == Init /\ [][NextChoice]_vars

----------------------------------------------------------------------------
(* Voice recognition (src/src/App.tsx lines 257-434).  voice.sessions holds  *)
(* every SpeechRecognition object startListening created, in order; a        *)
(* session is named by its position.  Of a session: target is the argument   *)
(* startListening was called with, seenTarget and seenSpeaking the           *)
(* voiceTarget and speaking of the render whose startListening created it    *)
(* (the handlers close over them), at where the browser has it, routed what  *)
(* onresult did with its final transcript.  The transcript of session k is   *)
(* written k; followUpQuestion 0 is the empty string.                        *)

VoiceTargets == {"form", "chatbot"}

NewSession(target) ==
    [target |-> target, seenTarget |-> voice.voiceTarget,
     seenSpeaking |-> speech.speaking, at |-> "starting", stopped |-> FALSE,
     routed |-> "none", extracting |-> FALSE]

\* the sessions the browser has started and not ended
LiveSessions ==
    { k \in DOMAIN voice.sessions :
        voice.sessions[k].at \in {"starting", "started"} }

OnlyVoice == UNCHANGED <<file, clock, op, req, resp, acked, pc, local,
                         fetch, task, polls>>

\* startListening when listening && recognitionInstance (lines 259-262)
ListeningStopped ==
    /\ voice.listening
    /\ voice.recognitionInstance # 0
    /\ voice' = [voice EXCEPT
                   !.sessions[voice.recognitionInstance].stopped = TRUE]
    /\ UNCHANGED <<ui, speech>>
    /\ OnlyVoice

\* startListening(target) otherwise, recognition.start() returning
ListeningStarted ==
    /\ ~(voice.listening /\ voice.recognitionInstance # 0)
    /\ Len(voice.sessions) < MaxSessions
    /\ \E target \in VoiceTargets :
          voice' = [voice EXCEPT
                      !.voiceTarget = target,
                      !.sessions = Append(@, NewSession(target)),
                      !.recognitionInstance = Len(voice.sessions) + 1]
    /\ UNCHANGED <<ui, speech>>
    /\ OnlyVoice

\* startListening(target) otherwise, recognition.start() throwing (425-433)
ListeningStartThrows ==
    /\ ~(voice.listening /\ voice.recognitionInstance # 0)
    /\ Len(voice.sessions) < MaxSessions
    /\ \E target \in VoiceTargets :
          voice' = [voice EXCEPT
                      !.voiceTarget = target,
                      !.sessions =
                          Append(@, [NewSession(target) EXCEPT !.at = "ended"]),
                      !.listening = FALSE,
                      !.recognitionInstance = 0]
    /\ UNCHANGED <<ui, speech>>
    /\ OnlyVoice

\* recognition.onstart (lines 288-294)
RecognitionOnStart ==
    /\ \E k \in DOMAIN voice.sessions :
          /\ voice.sessions[k].at = "starting"
          /\ voice' = [voice EXCEPT !.sessions[k].at = "started",
                                    !.listening = TRUE]
    /\ UNCHANGED <<ui, speech>>
    /\ OnlyVoice

\* recognition.onresult with a final transcript (lines 356-422), up to the
\* await of extractDetailsFromVoice; continuous is false: one per session
RecognitionOnResult ==
    /\ \E k \in DOMAIN voice.sessions :
          /\ voice.sessions[k].at = "started"
          /\ voice.sessions[k].routed = "none"
          /\ IF voice.sessions[k].seenTarget = "chatbot"
             THEN /\ voice' = [voice EXCEPT !.followUpQuestion = k,
                                            !.sessions[k].routed = "followUp"]
                  /\ ui' = ui
             ELSE /\ voice' = [voice EXCEPT !.sessions[k].routed = "extract",
                                            !.sessions[k].extracting = TRUE]
                  /\ ui' = [ui EXCEPT !.loading = TRUE]
    /\ speech' = speech
    /\ OnlyVoice

\* onresult after the await (lines 391-421): the fields are set, the
\* feedback is spoken when a field changed, loading is reset
VoiceExtracted ==
    /\ \E k \in DOMAIN voice.sessions :
          /\ voice.sessions[k].extracting
          /\ voice' = [voice EXCEPT !.sessions[k].extracting = FALSE]
          /\ \E updated \in BOOLEAN :
                IF updated /\ CanSpeak(speech, voice.sessions[k].seenSpeaking)
                THEN speech' =
                        HandleSpeakBegin(speech, voice.sessions[k].seenSpeaking)
                ELSE speech' = speech
    /\ ui' = [ui EXCEPT !.loading = FALSE]
    /\ OnlyVoice

\* recognition.onerror (lines 326-354); onend follows
RecognitionOnError ==
    /\ \E k \in LiveSessions :
          voice' = [voice EXCEPT !.sessions[k].at = "errored",
                                 !.listening = FALSE,
                                 !.recognitionInstance = 0]
    /\ UNCHANGED <<ui, speech>>
    /\ OnlyVoice

\* recognition.onend (lines 314-320)
RecognitionOnEnd ==
    /\ \E k \in DOMAIN voice.sessions :
          /\ voice.sessions[k].at \in {"started", "errored"}
          /\ voice' = [voice EXCEPT !.sessions[k].at = "ended",
                                    !.listening = FALSE,
                                    !.recognitionInstance = 0]
    /\ UNCHANGED <<ui, speech>>
    /\ OnlyVoice

\* the speech actions leave the sessions alone
NextVoice ==
    \/ ListeningStopped
    \/ ListeningStarted
    \/ ListeningStartThrows
    \/ RecognitionOnStart
    \/ RecognitionOnResult
    \/ VoiceExtracted
    \/ RecognitionOnError
    \/ RecognitionOnEnd
    \/ SpeechGenerated
    \/ SpeechNotGenerated
    \/ PlaybackEnded

SpecVoice == Init /\ [][NextVoice]_vars

\* db.json found at server start: the empty store, or one left by an
\* earlier run
InitStored ==
    /\ InitButFile
    /\ \E body \in PostBodies, rnd \in RandomDraws :
          file \in { WriteDb(EmptyDb),
                     WriteDb([submissions |->
                                  <<NewSubmission(body, rnd, 0)>>]) }

\* fetchSubmissions alone, against a db.json that is cleared and damaged
NextFetch ==
    \/ FetchSubmissionsCall
    \/ FetchResponds
    \/ FetchNetworkError
    \/ FetchTimerFires
    \/ EnvCorruptFile
    \/ HandleDelete

SpecFetch == InitStored /\ [][NextFetch]_vars

----------------------------------------------------------------------------
(* Several fetchSubmissions calls at once (src/src/App.tsx lines 136-146,    *)
(* 198-206, 232-255, 640, 1520-1526).  Each call is a slot of polls.flight:  *)
(* sent (the GET is on its way), answered (the server has built the          *)
(* response, the await of line 234 has not returned), waiting (the retry     *)
(* timer runs), or free.  polls.ver counts the changes of db.json; a response*)
(* carries the ver it was built at, polls.shown is that of the response      *)
(* setSubmissions got last.  Responses return in any order.                  *)

FreePolls == { p \in DOMAIN polls.flight : polls.flight[p] = NoLocal }

PollsAt(at) ==
    { p \in DOMAIN polls.flight \ FreePolls : polls.flight[p].at = at }

PollSent(retries) == [at |-> "sent", retries |-> retries]

\* the catch of lines 247-253 for a call made with retries left
PollFailed(retries) ==
    IF RetryAllowed(retries)
    THEN [at |-> "waiting", retries |-> retries]
    ELSE NoLocal

OnlyPolls == UNCHANGED <<file, clock, op, req, resp, acked, pc, local,
                         ui, fetch, task, speech, voice>>

\* fetchSubmissions() from the mount or tab effect or the 30-second poll
PollCall ==
    /\ \E p \in FreePolls :
          polls' = [polls EXCEPT !.flight[p] = PollSent(DefaultRetries)]
    /\ OnlyPolls

\* the server handles one of the GETs
PollServed ==
    /\ op' = "GET"
    /\ \E p \in PollsAt("sent") :
          LET result == ListSubmissions(file)
          IN  /\ Served("GET", <<>>, result)
              /\ polls' = [polls EXCEPT
                             !.flight[p] = [at |-> "answered",
                                            retries |-> polls.flight[p].retries,
                                            resp |-> result.resp,
                                            ver |-> polls.ver]]
    /\ UNCHANGED <<ui, fetch, task, speech, voice>>

\* the await of a call returns: lines 243-246, or the throw of line 243
PollApplied ==
    /\ \E p \in PollsAt("answered") :
          LET call == polls.flight[p]
          IN  IF Ok(call.resp.status)
              THEN /\ ui' = [ui EXCEPT !.submissions = call.resp.body]
                   /\ polls' = [polls EXCEPT !.flight[p] = NoLocal,
                                             !.shown = call.ver]
              ELSE /\ ui' = ui
                   /\ polls' = [polls EXCEPT
                                  !.flight[p] = PollFailed(call.retries)]
    /\ UNCHANGED <<file, clock, op, req, resp, acked, pc, local,
                   fetch, task, speech, voice>>

\* the fetch of a call rejects
PollNetworkError ==
    /\ \E p \in PollsAt("sent") :
          polls' = [polls EXCEPT
                      !.flight[p] = PollFailed(polls.flight[p].retries)]
    /\ OnlyPolls

\* the retry timer of a call fires: fetchSubmissions(retries - 1)
PollTimerFires ==
    /\ \E p \in PollsAt("waiting") :
          polls' = [polls EXCEPT
                      !.flight[p] = PollSent(polls.flight[p].retries - 1)]
    /\ OnlyPolls

\* Clear All: the DELETE is answered, then fetchSubmissions()
PollClearAll ==
    /\ polls.ver < MaxWrites
    /\ op' = "DELETE"
    /\ Served("DELETE", <<>>, ClearSubmissions(file))
    /\ \E p \in FreePolls :
          polls' = [polls EXCEPT !.flight[p] = PollSent(DefaultRetries),
                                 !.ver = IF file' = file THEN @ ELSE @ + 1]
    /\ UNCHANGED <<ui, fetch, task, speech, voice>>

\* a submission is saved: the POST is answered, then fetchSubmissions()
PollSaved ==
    /\ polls.ver < MaxWrites
    /\ Len(Stored) < MaxSubs
    /\ op' = "POST"
    /\ \E body \in PostBodies, rnd \in RandomDraws :
          Served("POST", [body |-> body, rnd |-> rnd],
                 PostSubmission(file, body, rnd, clock))
    /\ \E p \in FreePolls :
          polls' = [polls EXCEPT !.flight[p] = PollSent(DefaultRetries),
                                 !.ver = IF file' = file THEN @ ELSE @ + 1]
    /\ UNCHANGED <<ui, fetch, task, speech, voice>>

NextPolls ==
    \/ PollCall
    \/ PollServed
    \/ PollApplied
    \/ PollNetworkError
    \/ PollTimerFires
    \/ PollClearAll
    \/ PollSaved

SpecPolls == InitStored /\ [][NextPolls]_vars

----------------------------------------------------------------------------
(* Two server processes on one db.json: the read and the write-back of a    *)
(* POST handler are separate file-system calls, and the calls of the two     *)
(* processes interleave.                                                     *)

InFlight == Cardinality({ q \in Procs : pc[q] # "idle" })

\* lines 56-58: the handler has read the document
PostBegin(p) ==
    /\ pc[p] = "idle"
    /\ Len(acked) + InFlight < MaxSubs
    /\ ~(ExistsDb(file) /\ ReadThrows(file))
    /\ \E body \in PostBodies :
          local' = [local EXCEPT ![p] = [body |-> body, data |-> PostRead(file)]]
    /\ pc' = [pc EXCEPT ![p] = "read"]
    /\ op' = "read"
    /\ UNCHANGED <<file, clock, req, resp, acked, ui, fetch, task, speech, voice, polls>>

\* lines 60-71: the handler pushes onto what it read, writes and responds
PostFinish(p) ==
    /\ pc[p] = "read"
    /\ \E rnd \in RandomDraws :
          LET new == NewSubmission(local[p].body, rnd, clock)
          IN  /\ file' = PostWrite(local[p].data, new)
              /\ resp' = Response(201, new)
              /\ req' = [body |-> local[p].body, rnd |-> rnd]
              /\ acked' = Append(acked, new)
    /\ pc' = [pc EXCEPT ![p] = "idle"]
    /\ local' = [local EXCEPT ![p] = NoLocal]
    /\ op' = "POST"
    /\ UNCHANGED <<clock, ui, fetch, task, speech, voice, polls>>

NextRace ==
    \/ \E p \in Procs : PostBegin(p)
    \/ \E p \in Procs : PostFinish(p)
    \/ Tick

SpecRace == Init /\ [][NextRace]_vars

----------------------------------------------------------------------------
(* Properties *)

\* two submissions that agree on every field but choice
SameButChoice(a, b) ==
    Spread(a, [choice |-> null]) = Spread(b, [choice |-> null])

IsStore(f) ==
    \/ f.kind = "absent"
    \/ f.kind = "json" /\ "submissions" \in DOMAIN f.data

\* the submissions a reader of f gets
StoredIn(f) == IF ReadThrows(f) THEN <<>> ELSE SubmissionsOrEmpty(ReadDb(f))

\* C1: a POST answered 201, followed by GET, lists the previous list with
\* the returned submission added at the end, its choice null, every earlier
\* entry as it was.
C1_AppendThenList ==
    [][(op' = "POST" /\ resp'.status = 201) =>
        LET before == ListSubmissions(file).resp
            after == ListSubmissions(file').resp
        IN  /\ before.status = 200
            /\ after.status = 200
            /\ after.body = Append(before.body, resp'.body)
            /\ resp'.body.choice = null]_vars

C1_Appended ==
    /\ op = "POST"
    /\ resp.status = 201
    /\ Len(Stored) = 2
    /\ Stored[2] = resp.body

\* C2: no two stored submissions have the same id.
C2_UniqueIds ==
    \A j, k \in DOMAIN Stored : j # k => Stored[j].id # Stored[k].id

\* C3: with requests handled one at a time, the store holds exactly what
\* the responses acknowledged: every submission a POST returned, each with
\* the choice of the last PATCH answered 200 for it.
C3_NoLostUpdate ==
    /\ \A p \in Procs : pc[p] = "idle"
    /\ file.kind = "json"
    /\ Stored = acked

C3_PostsAndPatches ==
    /\ op = "PATCH"
    /\ resp.status = 200
    /\ Len(acked) = 2
    /\ acked[1].choice = "A"
    /\ acked[2].choice = "B"

\* C4: with two processes, each write-back stores the document its handler
\* read plus its own submission, whatever db.json holds by then; the
\* witness is the lost update: two POSTs answered 201, one submission stored.
C4_WriteBackOfSnapshot ==
    [][\A p \in Procs :
        (pc[p] = "read" /\ pc'[p] = "idle") =>
            /\ resp'.status = 201
            /\ file'.kind = "json"
            /\ file'.data.submissions =
                  Append(SubmissionsOrEmpty(local[p].data), resp'.body)]_vars

C4_LostUpdate ==
    /\ InFlight = 0
    /\ Len(acked) = 2
    /\ Len(Stored) = 1
    /\ Stored[1] = acked[2]
    /\ acked[1] # acked[2]

\* C5: PATCH with an id no stored submission has answers 404 and leaves
\* db.json as it was, for every store, the absent file included.
C5_UnknownIdNotFound ==
    [][(op' = "PATCH" /\ IsStore(file) /\ FindIndex(Stored, req'.id) = 0) =>
        (resp'.status = 404 /\ file' = file)]_vars

\* C6: a PATCH answered 200 changes the choice of one submission with the
\* id of the request and nothing else; no step changes another field of a
\* submission that stays stored.
C6_OnlyChoiceChanges ==
    [][LET after == StoredIn(file')
       IN  IF op' = "PATCH" /\ resp'.status = 200
           THEN /\ DOMAIN after = DOMAIN Stored
                /\ \E k \in DOMAIN Stored :
                      /\ Stored[k].id = req'.id
                      /\ after[k] =
                            Spread(Stored[k], [choice |-> req'.body.choice])
                      /\ \A j \in (DOMAIN Stored) \ {k} : after[j] = Stored[j]
           ELSE \A k \in (DOMAIN Stored) \cap (DOMAIN after) :
                      after[k] = Stored[k]]_vars

C6_ChoiceRecorded ==
    /\ op = "PATCH"
    /\ resp.status = 200
    /\ Len(Stored) = 2
    /\ Stored[2] = resp.body
    /\ resp.body.choice = "B"

\* C7: the stats satisfy byRisk.high + byRisk.medium + byRisk.low = total.
C7_RiskSumsToTotal ==
    (op = "STATS" /\ resp.status = 200) =>
        resp.body.byRisk.high + resp.body.byRisk.medium + resp.body.byRisk.low
            = resp.body.total

\* C8: the stats satisfy byChoice.change + byChoice.continue +
\* byChoice.none = total.
C8_ChoiceSumsToTotal ==
    (op = "STATS" /\ resp.status = 200) =>
        resp.body.byChoice.change + resp.body.byChoice.continue
            + resp.body.byChoice.none = resp.body.total

C10_ServerAssignedFields ==
    [][(op' = "POST" /\ resp'.status = 201) =>
        LET s == resp'.body
            b == req'.body
            assigned == {"id", "timestamp", "choice"}
        IN  /\ DOMAIN s = (DOMAIN b) \cup assigned
            /\ s.id = GenerateId(req'.rnd)
            /\ s.timestamp = clock
            /\ s.choice = null
            /\ \A f \in (DOMAIN b) \ assigned : s[f] = b[f]
            /\ StoredIn(file')[Len(StoredIn(file'))] = s]_vars

C10_BodyFieldsOverridden ==
    /\ op = "POST"
    /\ resp.status = 201
    /\ {"id", "timestamp", "choice"} \subseteq DOMAIN req.body
    /\ req.body.id # resp.body.id
    /\ req.body.timestamp # resp.body.timestamp
    /\ req.body.choice # resp.body.choice
    /\ resp.body.crop = req.body.crop

\* the stats of an empty store
ZeroStats ==
    [total |-> 0,
     byRisk |-> [high |-> 0, medium |-> 0, low |-> 0],
     byChoice |-> [change |-> 0, continue |-> 0, none |-> 0],
     byCrop |-> <<>>]

\* C11: the stats of a store without submissions are answered 200 with
\* every count 0 and byCrop empty, the same for a cleared store, an empty
\* array and a missing db.json.
C11_EmptyStoreStats ==
    (op = "STATS" /\ IsStore(file) /\ Stored = <<>>) =>
        resp = Response(200, ZeroStats)

\* C12: DELETE succeeds on every db.json, the missing one included, leaves
\* {submissions: []}, after which the list is empty and a second DELETE
\* writes the same document.
C12_ClearTotalIdempotent ==
    [][op' = "DELETE" =>
        /\ resp'.status = 200
        /\ file' = WriteDb(EmptyDb)
        /\ ListSubmissions(file').resp = Response(200, <<>>)
        /\ ClearSubmissions(file').file = file']_vars

C12_Cleared ==
    /\ op = "DELETE"
    /\ resp.status = 200
    /\ file = WriteDb(EmptyDb)

\* C13: after a PATCH answered 200, every stored submission with the id of
\* the request has the choice of the request (the last call for an id wins).
C13_LastChoiceWins ==
    [][(op' = "PATCH" /\ resp'.status = 200) =>
        \A k \in DOMAIN StoredIn(file') :
            StoredIn(file')[k].id = req'.id =>
                StoredIn(file')[k].choice = req'.body.choice]_vars

\* C14 as stated: GET on a missing db.json answers 200 with the empty list
\* and creates db.json holding {submissions: []}.
C14_ListMaterializes ==
    [][(op' = "GET" /\ file.kind = "absent") =>
        (resp' = Response(200, <<>>) /\ file' = WriteDb(EmptyDb))]_vars

\* C14 amended: GET on a missing db.json answers 200 with the empty list
\* and leaves it missing (no GET writes db.json); it is POST and DELETE that
\* create the missing file.
C14_ListLeavesFileMissing ==
    [][/\ op' = "GET" => file' = file
       /\ (op' = "GET" /\ file.kind = "absent") => resp' = Response(200, <<>>)
       /\ (op' \in {"POST", "DELETE"} /\ file.kind = "absent") =>
              file'.kind = "json"]_vars

C14_ListedMissingFile ==
    /\ op = "GET"
    /\ file.kind = "absent"
    /\ resp = Response(200, <<>>)

ReadFailure(kind, f) ==
    \/ kind \in {"GET", "POST", "STATS"} /\ ExistsDb(f) /\ ReadThrows(f)
    \/ kind = "PATCH" /\ ReadThrows(f)

ErrorMessages ==
    { "Failed to read database", "Failed to save submission",
      "Failed to update choice", "Failed to clear history",
      "Failed to get stats" }

\* C16: a request whose read or write of db.json throws is answered 500
\* with a body {error: <string>}; no request ends the process, and after
\* every response the handlers still take requests.
C16_FailureAnswered500 ==
    /\ [][(op' \in {"GET", "POST", "PATCH", "DELETE", "STATS"}
            /\ (ReadFailure(op', file) \/ "fault" \in DOMAIN req')) =>
            /\ resp'.status = 500
            /\ DOMAIN resp'.body = {"error"}
            /\ resp'.body.error \in ErrorMessages]_vars
    /\ [](/\ resp # Uncaught
          /\ ENABLED HandleList
          /\ ENABLED HandlePatch
          /\ ENABLED HandleDelete
          /\ ENABLED HandleStats)

C16_FailedThenServed ==
    /\ op = "DELETE"
    /\ "fault" \in DOMAIN req
    /\ resp.status = 500
    /\ file.kind = "corrupt"

\* C17: an analysis result lacking a required field is not sent to
\* POST /api/submissions and no stored submission carries one.
C17_IncompleteResultNotStored ==
    /\ task.at \in {"post", "refresh"} =>
           RequiredFields \subseteq DOMAIN task.result
    /\ \A k \in DOMAIN Stored :
           RequiredFields \subseteq DOMAIN Stored[k].fullAnalysis

\* C18: at most one audio source is playing at any time.
C18_OneAudioSource == Cardinality(speech.playing) <= 1

\* C19: a fetchSubmissions call makes at most DefaultRetries + 1 attempts;
\* when all fail it stops with no timer pending; a failed attempt leaves
\* the React state (submissions, analysisError) as it was; an attempt that
\* succeeds sets submissions to the list received and schedules nothing.
C19_BoundedSilentRetry ==
    /\ [](/\ fetch.attempts <= DefaultRetries + 1
          /\ fetch.outcome = "gaveup" =>
                 (/\ fetch.attempts = DefaultRetries + 1
                  /\ fetch.timer = 0
                  /\ ~fetch.awaiting))
    /\ [][(fetch.awaiting /\ fetch' # fetch) =>
            IF op' = "GET" /\ Ok(resp'.status)
            THEN /\ ui'.submissions = resp'.body
                 /\ fetch'.outcome = "ok"
                 /\ fetch'.timer = 0
                 /\ ~fetch'.awaiting
            ELSE /\ ui' = ui
                 /\ fetch'.timer # 0 \/ fetch'.outcome = "gaveup"]_vars

C19_GaveUp ==
    /\ fetch.outcome = "gaveup"
    /\ fetch.attempts = DefaultRetries + 1
    /\ ui.submissions # <<>>
    /\ ui.analysisError = null

\* C20: the retry delays of one fetchSubmissions call grow strictly, each
\* the double of the one before or else equal to the cap.
C20_CappedExponentialDelays ==
    LET d == fetch.delays
        cap == d[Len(d)]
    IN  \A i \in 1..(Len(d) - 1) :
            /\ d[i + 1] > d[i]
            /\ d[i + 1] = 2 * d[i] \/ d[i + 1] = cap

\* C22: every stored submission's choice is A, B or null, whatever the
\* bodies of the POST and PATCH requests.
C22_ChoiceInEnum ==
    \A k \in DOMAIN Stored : Get(Stored[k], "choice") \in {"A", "B", null}

\* C23: no API request leaves a db.json without a submissions array: what
\* a request writes has one, a store that has one (or is missing) keeps
\* being so, and a POST on a missing db.json or on a document lacking the
\* field is answered 201 and leaves the array holding the new submission.
C23_SubmissionsArrayKept ==
    /\ [](op = "start" => file = WriteDb(EmptyDb))
    /\ [][op' \in {"GET", "POST", "PATCH", "DELETE", "STATS"} =>
            /\ file' # file =>
                   (file'.kind = "json" /\ "submissions" \in DOMAIN file'.data)
            /\ IsStore(file) => IsStore(file')
            /\ (op' = "POST" /\ (file.kind = "absent" \/ file = WriteDb(NoData)))
                   => (/\ resp'.status = 201
                       /\ StoredIn(file') = <<resp'.body>>)]_vars

C23_AppendedToFresh ==
    /\ op = "POST"
    /\ resp.status = 201
    /\ file.kind = "json"
    /\ file.data.submissions = <<resp.body>>

\* the sum of the counts of a byCrop object
SumOfCounts(byCrop) ==
    Cardinality(UNION { { <<c, i>> : i \in 1..byCrop[c] } : c \in DOMAIN byCrop })

\* C24: byCrop has exactly the crops occurring in the store as keys, each
\* mapped to the number of submissions with that crop, and its counts sum
\* to total.
C24_ByCropCounts ==
    (op = "STATS" /\ resp.status = 200) =>
        LET crops == { Stored[k].crop :
                         k \in { j \in DOMAIN Stored : "crop" \in DOMAIN Stored[j] } }
            byCrop == resp.body.byCrop
        IN  /\ DOMAIN byCrop = crops
            /\ \A c \in crops :
                   byCrop[c] = Cardinality({ k \in DOMAIN Stored :
                                               Get(Stored[k], "crop") = c })
            /\ SumOfCounts(byCrop) = resp.body.total

\* C21: a PATCH of handleChoice that is not answered 2xx leaves userChoice
\* as it was.
C21_FailedChoiceNotShown ==
    [][(op' = "PATCH" /\ ~Ok(resp'.status)) =>
           ui'.userChoice = ui.userChoice]_vars

\* C26: the PATCH of handleChoice goes to a stored submission that holds
\* the analysis on display.
C26_ChoiceTargetsDisplayed ==
    [][op' = "PATCH" =>
        \E k \in DOMAIN Stored :
            /\ Stored[k].id = req'.id
            /\ Stored[k].fullAnalysis = ui.analysis]_vars

\* C27: when no run of handleAnalyze is under way, loading and saving are
\* false.
C27_RunEndsUsable ==
    task.at = "idle" => (~ui.loading /\ ~ui.saving)

\* C30: a request that was generating when stopSpeaking was called is never
\* played.
C30_StoppedNeverPlays == speech.playing \cap speech.stopped = {}


\* C25: at most one speech-recognition session exists at any time, a call of
\* startListening made while a session has been started (before onstart as
\* well) stopping that session instead of creating a second one; and every
\* session that ends or errors leaves listening false and recognitionInstance
\* null.
C25_OneRecognitionSession ==
    /\ [](Cardinality(LiveSessions) <= 1)
    /\ [][\A k \in DOMAIN voice.sessions :
            (/\ voice'.sessions[k].at \in {"ended", "errored"}
             /\ voice'.sessions[k].at # voice.sessions[k].at)
            => (~voice'.listening /\ voice'.recognitionInstance = 0)]_vars

\* C28: a final transcript of a session started with startListening('chatbot')
\* is written to the follow-up question and never sent to field extraction,
\* one of a session started with startListening('form') is sent to field
\* extraction and never written to the follow-up question.
C28_TranscriptFollowsTarget ==
    \A k \in DOMAIN voice.sessions :
        /\ voice.sessions[k].routed = "followUp"
              => voice.sessions[k].target = "chatbot"
        /\ voice.sessions[k].routed = "extract"
              => voice.sessions[k].target = "form"



\* C29: with several fetchSubmissions calls in flight, the submissions on
\* display never regress: after a response built from some state of the
\* store was applied, no response built from an older state is applied.
C29_SubmissionsNeverRegress ==
    [][polls'.shown >= polls.shown]_vars


============================================================================
